---- MODULE Spec2Model ----
(***************************************************************************)
(* Verification model of the design-pattern examples.                      *)
(*                                                                         *)
(* One specification for each example: flyweight, singleton, builder,      *)
(* prototype, proxy, composite and decorator.  They share the variables;   *)
(* each leaves the variables of the other examples unchanged.              *)
(*                                                                         *)
(* Flyweight example: CarFlyweight / CarFlyweightFactory.  The factory     *)
(* keeps an unordered_map from a string key to a shared_ptr<CarFlyweight>; *)
(* getCarFlyweight builds the key by concatenating the three intrinsic     *)
(* attributes with "_" and creates the flyweight when find() misses.       *)
(***************************************************************************)
EXTENDS Integers, Sequences, FiniteSets, TLC

(* ---------------------------------------------------------------------- *)
(* Bounds and input sets                                                   *)
(* ---------------------------------------------------------------------- *)

\* number of getCarFlyweight calls explored in one run
MaxCalls == 3

\* number of getCarFlyweight calls made by the threads sharing a factory
MaxThreadCalls == 2

\* number of client threads of the shared-factory specification
NumThreads == 2

\* number of references to the configuration the client obtains
MaxRefs == 2

\* number of machines the client obtains from createMachine and clone
MaxMachines == 2

\* largest number of decorators wrapped around a coffee
MaxWraps == 8

\* largest number of children a Directory is given
MaxChildren == 3

\* largest balance the deposits are followed to
MaxBalance == 4

\* number of getInstance calls made by the threads
MaxInitCalls == 4

\* attribute values: plain text, text holding the separator character of
\* generateKey, and the empty string
Models == {"A", "A_B"}
Brands == {"C", "B_C"}
EngineTypes == {"", "D"}

\* extrinsic values handed to displayCarDetails
RegistrationNumbers == {"TS1234"}
Owners == {"Alice", "Bob"}

Threads == 1..NumThreads

\* the thread of the sequential program (main)
MainThread == 0

\* a default-constructed (empty) shared_ptr
NullHandle == 0

\* no thread holds the mutex
NoThread == 0

VARIABLES
    carMap,     \* CarFlyweightFactory::carMap : key -> handle
    heap,       \* the CarFlyweight objects made by make_shared : handle -> fields
    out,        \* the text last written to std::cout
    log,        \* the calls of getCarFlyweight that returned, in order
    displayed,  \* displayCarDetails has been called
    pc,         \* per thread, its position in getCarFlyweight
    frame,      \* per thread, the arguments and locals of its call
    lock,       \* holder of the mutex of the guarded factory
    sStore,     \* GlobalCoffeeConfig objects : address -> object
    sGuard,     \* guard of the static of getInstance : uninit, busy, done
    sCtors,     \* runs of the GlobalCoffeeConfig constructor
    sRefs,      \* the references getInstance returned to the client
    sSetBy,     \* the references (as indexes) setState was called through
    sRet,       \* the client's last operation on the configuration
    sThr,       \* per thread, its position in getInstance
    sLog,       \* the getInstance calls of the threads that returned
    bld,        \* the CoffeeBuilder: <<>> or <<its coffee>>
    bRet,       \* the builder's last call and the Coffee or exception it gave
    machines,   \* CoffeeMachineManager::machines : the prototype pointers
    mHeap,      \* the CoffeeMachine objects made by new : address -> object
    mine,       \* the machine pointers the client got from createMachine and clone
    mRet,       \* the last call of the prototype program
    mUB,        \* a null prototype was dereferenced
    proxy,      \* the BankAccountProxy: <<>> or <<balance and pin>>
    xRet,       \* the last call on the proxy
    children,   \* the children vector of every Directory
    cRet,       \* the last call on a Directory
    dHeap,      \* the SimpleCoffee and the decorators made so far
    myCoffee    \* the client's pointer to the outermost of them

flyweightVars == <<carMap, heap, out, log, displayed, pc, frame, lock>>

singletonVars == <<sStore, sGuard, sCtors, sRefs, sSetBy, sRet, sThr, sLog>>

builderVars == <<bld, bRet>>

prototypeVars == <<machines, mHeap, mine, mRet, mUB>>

proxyVars == <<proxy, xRet>>

compositeVars == <<children, cRet>>

decoratorVars == <<dHeap, myCoffee>>

vars == <<flyweightVars, singletonVars, builderVars, prototypeVars, proxyVars,
          compositeVars, decoratorVars>>

(* ---------------------------------------------------------------------- *)
(* CarFlyweight                                                            *)
(* ---------------------------------------------------------------------- *)

\* constructor: the three intrinsic fields are copies of the arguments
CarFlyweight(model, brand, engineType) ==
    [model |-> model, brand |-> brand, engineType |-> engineType]

\* the text displayCarDetails writes for a flyweight and extrinsic values
displayCarDetails(self, registrationNumber, owner) ==
    "Car Details:\n"
        \o "Model: " \o self.model \o "\n"
        \o "Brand: " \o self.brand \o "\n"
        \o "Engine Type: " \o self.engineType \o "\n"
        \o "Registration Number: " \o registrationNumber \o "\n"
        \o "Owner: " \o owner \o "\n"

(* ---------------------------------------------------------------------- *)
(* CarFlyweightFactory                                                     *)
(* ---------------------------------------------------------------------- *)

generateKey(model, brand, engineType) ==
    model \o "_" \o brand \o "_" \o engineType

\* faulty variant: the lookup never finds the key
mapFindNever(map, key) == FALSE

\* carMap.find(key) != carMap.end()
mapFind(map, key) == key \in DOMAIN map

\* faulty variant: the assignment drops the entries of the other keys
mapAssignOnly(map, key, h) == [k \in {key} |-> h]

\* faulty variant: a key that is bound keeps its binding
mapAssignIfAbsent(map, key, h) ==
    [k \in DOMAIN map \cup {key} |-> IF k \in DOMAIN map THEN map[k] ELSE h]

\* map[key] = h : operator[] inserts the key when absent, then the handle
\* is assigned to the mapped value
mapAssign(map, key, h) ==
    [k \in DOMAIN map \cup {key} |-> IF k = key THEN h ELSE map[k]]

\* map[key] read: operator[] inserts an empty shared_ptr when the key is absent
mapIndex(map, key) ==
    IF key \in DOMAIN map THEN map ELSE mapAssign(map, key, NullHandle)

\* make_shared<CarFlyweight> : a fresh object, distinct from every live one
makeShared(h) == Cardinality(DOMAIN h) + 1

heapAlloc(h, obj) ==
    [p \in DOMAIN h \cup {makeShared(h)} |-> IF p \in DOMAIN h THEN h[p] ELSE obj]

CreatingMsg == "Creating new CarFlyweight"
ReusingMsg == "Reusing existing CarFlyweight"

\* faulty variant: a flyweight is created and stored for every request
branchAlwaysCreate(map, h, key, model, brand, engineType) ==
    [map |-> mapAssign(map, key, makeShared(h)),
     heap |-> heapAlloc(h, CarFlyweight(model, brand, engineType)),
     signal |-> IF ~mapFind(map, key) THEN CreatingMsg ELSE ReusingMsg]

\* faulty variant: the flyweight created on a miss is not stored in the map
branchNoInsert(map, h, key, model, brand, engineType) ==
    IF ~mapFind(map, key)
    THEN [map |-> map,
          heap |-> heapAlloc(h, CarFlyweight(model, brand, engineType)),
          signal |-> CreatingMsg]
    ELSE [map |-> map, heap |-> h, signal |-> ReusingMsg]

\* the factory after the if/else of getCarFlyweight, and the diagnostic of
\* the branch taken
branch(map, h, key, model, brand, engineType) ==
    IF ~mapFind(map, key)
    THEN [map |-> mapAssign(map, key, makeShared(h)),
          heap |-> heapAlloc(h, CarFlyweight(model, brand, engineType)),
          signal |-> CreatingMsg]
    ELSE [map |-> map, heap |-> h, signal |-> ReusingMsg]

NoFrame ==
    [model |-> "", brand |-> "", engineType |-> "", key |-> "", signal |-> "",
     began |-> 0]

\* a returned call: caller, arguments, the key computed, the handle returned,
\* the diagnostic printed, and how many calls had returned when it began
CallRecord(t, model, brand, engineType, key, ret, signal, began) ==
    [thread |-> t, model |-> model, brand |-> brand, engineType |-> engineType,
     key |-> key, ret |-> ret, signal |-> signal, began |-> began]

\* one whole call of getCarFlyweight by the sequential program
GetCarFlyweight(model, brand, engineType) ==
    LET key == generateKey(model, brand, engineType)
        b == branch(carMap, heap, key, model, brand, engineType)
        map2 == mapIndex(b.map, key)
    IN  /\ Len(log) < MaxCalls
        /\ \A t \in Threads : pc[t] = "idle"
        /\ carMap' = map2
        /\ heap' = b.heap
        /\ out' = b.signal \o ": " \o key \o "\n"
        /\ log' = Append(log, CallRecord(MainThread, model, brand, engineType,
                                         key, map2[key], b.signal, Len(log)))
        /\ UNCHANGED <<displayed, pc, frame, lock>>

\* faulty variant: the owner is written into the shared flyweight
DisplayCarDetailsStore(i, registrationNumber, owner) ==
    /\ i \in 1..Len(log)
    /\ log[i].ret \in DOMAIN heap
    /\ out' = displayCarDetails(heap[log[i].ret], registrationNumber, owner)
    /\ heap' = [heap EXCEPT ![log[i].ret].model = owner]
    /\ displayed' = TRUE
    /\ UNCHANGED <<carMap, log, pc, frame, lock>>

\* car->displayCarDetails(registrationNumber, owner) on a handle returned earlier
DisplayCarDetails(i, registrationNumber, owner) ==
    /\ i \in 1..Len(log)
    /\ log[i].ret \in DOMAIN heap
    /\ out' = displayCarDetails(heap[log[i].ret], registrationNumber, owner)
    /\ displayed' = TRUE
    /\ UNCHANGED <<carMap, heap, log, pc, frame, lock>>

(* ---------------------------------------------------------------------- *)
(* getCarFlyweight statement by statement, for threads sharing a factory   *)
(* ---------------------------------------------------------------------- *)

\* calls begun so far: those that returned and those in progress
Started == Len(log) + Cardinality({t \in Threads : pc[t] # "idle"})

\* thread t calls factory.getCarFlyweight(model, brand, engineType)
Call(t, model, brand, engineType) ==
    /\ pc[t] = "idle"
    /\ Started < MaxThreadCalls
    /\ pc' = [pc EXCEPT ![t] = "entered"]
    /\ frame' = [frame EXCEPT ![t] = [model |-> model, brand |-> brand,
                                      engineType |-> engineType,
                                      key |-> "", signal |-> "",
                                      began |-> Len(log)]]
    /\ UNCHANGED <<carMap, heap, out, log, displayed>>

\* std::string key = generateKey(model, brand, engineType);
KeyStep(t) ==
    /\ pc[t] = "entered"
    /\ frame' = [frame EXCEPT ![t].key =
                    generateKey(frame[t].model, frame[t].brand, frame[t].engineType)]
    /\ pc' = [pc EXCEPT ![t] = "find"]
    /\ UNCHANGED <<carMap, heap, out, log, displayed>>

\* if (carMap.find(key) == carMap.end()) ... else { cout << "Reusing ..." }
FindStep(t) ==
    /\ pc[t] = "find"
    /\ IF mapFind(carMap, frame[t].key)
       THEN /\ pc' = [pc EXCEPT ![t] = "lookup"]
            /\ frame' = [frame EXCEPT ![t].signal = ReusingMsg]
            /\ out' = ReusingMsg \o ": " \o frame[t].key \o "\n"
       ELSE /\ pc' = [pc EXCEPT ![t] = "insert"]
            /\ UNCHANGED <<frame, out>>
    /\ UNCHANGED <<carMap, heap, log, displayed>>

\* carMap[key] = std::make_shared<CarFlyweight>(...); cout << "Creating ..."
InsertStep(t) ==
    /\ pc[t] = "insert"
    /\ carMap' = mapAssign(carMap, frame[t].key, makeShared(heap))
    /\ heap' = heapAlloc(heap, CarFlyweight(frame[t].model, frame[t].brand,
                                            frame[t].engineType))
    /\ out' = CreatingMsg \o ": " \o frame[t].key \o "\n"
    /\ frame' = [frame EXCEPT ![t].signal = CreatingMsg]
    /\ pc' = [pc EXCEPT ![t] = "lookup"]
    /\ UNCHANGED <<log, displayed>>

\* return carMap[key];
ReturnStep(t) ==
    /\ pc[t] = "lookup"
    /\ carMap' = mapIndex(carMap, frame[t].key)
    /\ log' = Append(log, CallRecord(t, frame[t].model, frame[t].brand,
                                     frame[t].engineType, frame[t].key,
                                     carMap'[frame[t].key], frame[t].signal,
                                     frame[t].began))
    /\ pc' = [pc EXCEPT ![t] = "idle"]
    /\ frame' = [frame EXCEPT ![t] = NoFrame]
    /\ UNCHANGED <<heap, out, displayed>>

(* ---------------------------------------------------------------------- *)
(* The factory as written, shared by threads without synchronisation      *)
(* ---------------------------------------------------------------------- *)

\* thread t is between the first and the last statement of the body
InBody(t) == pc[t] \in {"find", "insert", "lookup"}

RacyCall(t, model, brand, engineType) ==
    Call(t, model, brand, engineType) /\ UNCHANGED lock

RacyKeyStep(t) == KeyStep(t) /\ UNCHANGED lock

RacyFindStep(t) == FindStep(t) /\ UNCHANGED lock

RacyInsertStep(t) == InsertStep(t) /\ UNCHANGED lock

RacyReturnStep(t) == ReturnStep(t) /\ UNCHANGED lock

\* two threads inside the body access carMap concurrently, a data race:
\* besides interleaving statement by statement the program may be ended,
\* and is then not followed further
RaceAbort(t) ==
    /\ InBody(t)
    /\ \E u \in Threads \ {t} : InBody(u)
    /\ pc' = [u \in Threads |-> "aborted"]
    /\ UNCHANGED <<carMap, heap, out, log, displayed, frame, lock>>

(* ---------------------------------------------------------------------- *)
(* The factory with the body of getCarFlyweight as one critical section    *)
(* ---------------------------------------------------------------------- *)

\* the call is made; the thread has yet to take the mutex
LockedCall(t, model, brand, engineType) ==
    Call(t, model, brand, engineType) /\ UNCHANGED lock

\* the mutex is taken on entry to the body
LockedKeyStep(t) ==
    lock = NoThread /\ lock' = t /\ KeyStep(t)

LockedFindStep(t) ==
    lock = t /\ FindStep(t) /\ UNCHANGED lock

LockedInsertStep(t) ==
    lock = t /\ InsertStep(t) /\ UNCHANGED lock

\* the mutex is released as the call returns
LockedReturnStep(t) ==
    lock = t /\ ReturnStep(t) /\ lock' = NoThread

(* ---------------------------------------------------------------------- *)
(* Singleton example: GlobalCoffeeConfig                                   *)
(* ---------------------------------------------------------------------- *)

\* keys, values and fallbacks of the configuration
ConfigKeys == {"milk", "sugar"}
ConfigValues == {"Almond", "Brown"}
ConfigDefaults == {"None"}

\* the storage of the function-local static `config` of getInstance
StaticAddr == 1

\* GlobalCoffeeConfig() : an object with an empty coffeeState
GlobalCoffeeConfig == [built |-> TRUE, coffeeState |-> <<>>]

\* faulty variant: a new object is made and returned by every call
getInstancePerCall(store, guard, ctors) ==
    LET a == StaticAddr + Cardinality(DOMAIN store)
    IN  [store |-> [x \in DOMAIN store \cup {a} |->
                        IF x = a THEN GlobalCoffeeConfig ELSE store[x]],
         guard |-> "done",
         ctors |-> ctors + 1,
         ref |-> a]

\* getInstance run by one thread alone: the static is constructed when its
\* guard says it has not been, and a reference to it is returned
getInstance(store, guard, ctors) ==
    IF guard # "done"
    THEN [store |-> [x \in DOMAIN store \cup {StaticAddr} |->
                        IF x = StaticAddr THEN GlobalCoffeeConfig ELSE store[x]],
          guard |-> "done",
          ctors |-> ctors + 1,
          ref |-> StaticAddr]
    ELSE [store |-> store, guard |-> guard, ctors |-> ctors, ref |-> StaticAddr]

\* faulty variant: the value of a key already present is replaced
setStateAssign(m, key, value) ==
    [k \in DOMAIN m \cup {key} |-> IF k = key THEN value ELSE m[k]]

\* coffeeState.insert({key, value}) : no effect when the key is present
setState(m, key, value) ==
    IF key \in DOMAIN m
    THEN m
    ELSE [k \in DOMAIN m \cup {key} |-> IF k = key THEN value ELSE m[k]]

\* faulty variant: the lookup is made with operator[], which inserts the key
getStateIndex(m, key) ==
    IF key \in DOMAIN m
    THEN [m |-> m, ret |-> m[key]]
    ELSE [m |-> [k \in DOMAIN m \cup {key} |-> IF k = key THEN "" ELSE m[k]],
          ret |-> ""]

\* getState: the map afterwards and the value returned
getState(m, key) ==
    IF key \in DOMAIN m
    THEN [m |-> m, ret |-> m[key]]
    ELSE [m |-> m, ret |-> ""]

\* getStateOrDefault: the map afterwards and the value returned
getStateOrDefault(m, key, defaultValue) ==
    IF key \in DOMAIN m
    THEN [m |-> m, ret |-> m[key]]
    ELSE [m |-> m, ret |-> defaultValue]

\* coffeeState.find(key) != coffeeState.end()
hasState(m, key) == key \in DOMAIN m

\* coffeeState.erase(key)
removeState(m, key) == [k \in DOMAIN m \ {key} |-> m[k]]

\* coffeeState.clear()
clearState(m) == <<>>

\* the last operation of the client: its name, the reference used (as the
\* index of the getInstance call that returned it), arguments and result
OpRecord(op, idx, key, value, ret) ==
    [op |-> op, idx |-> idx, key |-> key, value |-> value, ret |-> ret]

NoOp == OpRecord("", 0, "", "", "")

\* the references the client holds
RefIdx == 1..Len(sRefs)

\* GlobalCoffeeConfig& c = GlobalCoffeeConfig::getInstance();
GetInstance ==
    LET r == getInstance(sStore, sGuard, sCtors)
    IN  /\ Len(sRefs) < MaxRefs
        /\ sStore' = r.store
        /\ sGuard' = r.guard
        /\ sCtors' = r.ctors
        /\ sRefs' = Append(sRefs, r.ref)
        /\ sRet' = OpRecord("getInstance", Len(sRefs) + 1, "", "", "")
        /\ UNCHANGED <<sSetBy, sThr, sLog>>

\* the coffeeState of the object behind reference i becomes m
WriteState(i, m) ==
    sStore' = [sStore EXCEPT ![sRefs[i]].coffeeState = m]

\* c.setState(key, value) through reference i
SetState(i, key, value) ==
    /\ i \in RefIdx
    /\ WriteState(i, setState(sStore[sRefs[i]].coffeeState, key, value))
    /\ sSetBy' = sSetBy \cup {i}
    /\ sRet' = OpRecord("setState", i, key, value, "")
    /\ UNCHANGED <<sGuard, sCtors, sRefs, sThr, sLog>>

\* c.getState(key) through reference i
GetState(i, key) ==
    LET r == getState(sStore[sRefs[i]].coffeeState, key)
    IN  /\ i \in RefIdx
        /\ WriteState(i, r.m)
        /\ sRet' = OpRecord("getState", i, key, "", r.ret)
        /\ UNCHANGED <<sGuard, sCtors, sRefs, sSetBy, sThr, sLog>>

\* c.getStateOrDefault(key, defaultValue) through reference i
GetStateOrDefault(i, key, defaultValue) ==
    LET r == getStateOrDefault(sStore[sRefs[i]].coffeeState, key, defaultValue)
    IN  /\ i \in RefIdx
        /\ WriteState(i, r.m)
        /\ sRet' = OpRecord("getStateOrDefault", i, key, defaultValue, r.ret)
        /\ UNCHANGED <<sGuard, sCtors, sRefs, sSetBy, sThr, sLog>>

\* c.hasState(key) through reference i
HasState(i, key) ==
    /\ i \in RefIdx
    /\ sRet' = OpRecord("hasState", i, key, "",
                        IF hasState(sStore[sRefs[i]].coffeeState, key)
                        THEN "Yes" ELSE "No")
    /\ UNCHANGED <<sStore, sGuard, sCtors, sRefs, sSetBy, sThr, sLog>>

\* c.removeState(key) through reference i
RemoveState(i, key) ==
    /\ i \in RefIdx
    /\ WriteState(i, removeState(sStore[sRefs[i]].coffeeState, key))
    /\ sRet' = OpRecord("removeState", i, key, "", "")
    /\ UNCHANGED <<sGuard, sCtors, sRefs, sSetBy, sThr, sLog>>

\* c.clearState() through reference i
ClearState(i) ==
    /\ i \in RefIdx
    /\ WriteState(i, clearState(sStore[sRefs[i]].coffeeState))
    /\ sRet' = OpRecord("clearState", i, "", "", "")
    /\ UNCHANGED <<sGuard, sCtors, sRefs, sSetBy, sThr, sLog>>

(* ---------------------------------------------------------------------- *)
(* getInstance step by step, for threads making their calls concurrently:  *)
(* the guarded initialisation of a function-local static                   *)
(* ---------------------------------------------------------------------- *)

\* faulty variant: an initialisation in progress is not waited for
guardAcquireUnsafe(guard) ==
    IF guard = "done" THEN "skip" ELSE "init"

\* the guard taken by a thread that found the static not yet initialised:
\* initialise it, wait for the thread that is initialising it, or skip
guardAcquire(guard) ==
    IF guard = "done" THEN "skip"
    ELSE IF guard = "uninit" THEN "init"
    ELSE "wait"

\* calls of getInstance begun by the threads
InitStarted == Len(sLog) + Cardinality({t \in Threads : sThr[t] # "idle"})

\* thread t calls GlobalCoffeeConfig::getInstance()
InstCall(t) ==
    /\ sThr[t] = "idle"
    /\ InitStarted < MaxInitCalls
    /\ sThr' = [sThr EXCEPT ![t] = "check"]
    /\ UNCHANGED <<sStore, sGuard, sCtors, sRefs, sSetBy, sRet, sLog>>

\* the fast path: the guard is read
InstCheck(t) ==
    /\ sThr[t] = "check"
    /\ sThr' = [sThr EXCEPT ![t] = IF sGuard = "done" THEN "return" ELSE "acquire"]
    /\ UNCHANGED <<sStore, sGuard, sCtors, sRefs, sSetBy, sRet, sLog>>

\* the slow path: the guard is taken, or the thread waits
InstAcquire(t) ==
    /\ sThr[t] = "acquire"
    /\ guardAcquire(sGuard) # "wait"
    /\ IF guardAcquire(sGuard) = "init"
       THEN /\ sGuard' = "busy"
            /\ sThr' = [sThr EXCEPT ![t] = "construct"]
       ELSE /\ sGuard' = sGuard
            /\ sThr' = [sThr EXCEPT ![t] = "return"]
    /\ UNCHANGED <<sStore, sCtors, sRefs, sSetBy, sRet, sLog>>

\* the constructor starts on the static storage
InstConstruct(t) ==
    /\ sThr[t] = "construct"
    /\ sStore' = [x \in DOMAIN sStore \cup {StaticAddr} |->
                    IF x = StaticAddr
                    THEN [GlobalCoffeeConfig EXCEPT !.built = FALSE]
                    ELSE sStore[x]]
    /\ sCtors' = sCtors + 1
    /\ sThr' = [sThr EXCEPT ![t] = "release"]
    /\ UNCHANGED <<sGuard, sRefs, sSetBy, sRet, sLog>>

\* the constructor ends and the guard is marked done
InstRelease(t) ==
    /\ sThr[t] = "release"
    /\ sStore' = [sStore EXCEPT ![StaticAddr].built = TRUE]
    /\ sGuard' = "done"
    /\ sThr' = [sThr EXCEPT ![t] = "return"]
    /\ UNCHANGED <<sCtors, sRefs, sSetBy, sRet, sLog>>

\* return config; the log keeps what the caller got
InstReturn(t) ==
    /\ sThr[t] = "return"
    /\ sLog' = Append(sLog, [thread |-> t, ref |-> StaticAddr,
                             built |-> StaticAddr \in DOMAIN sStore
                                        /\ sStore[StaticAddr].built,
                             ctors |-> sCtors])
    /\ sThr' = [sThr EXCEPT ![t] = "idle"]
    /\ UNCHANGED <<sStore, sGuard, sCtors, sRefs, sSetBy, sRet>>

SingletonInit ==
    /\ sStore = <<>>
    /\ sGuard = "uninit"
    /\ sCtors = 0
    /\ sRefs = <<>>
    /\ sSetBy = {}
    /\ sRet = NoOp
    /\ sThr = [t \in Threads |-> "idle"]
    /\ sLog = <<>>

(* ---------------------------------------------------------------------- *)
(* Builder example: Coffee / CoffeeBuilder                                 *)
(* ---------------------------------------------------------------------- *)

\* requestor names and costs handed to the builder
RequestorNames == {"", "Alice", "Kevin Smith"}
CoffeeCosts == {-1, 0, 5}

\* Coffee(requestorName) with the default member initialisers
Coffee(requestorName) ==
    [requestorName |-> requestorName, isHot |-> FALSE, hasMilk |-> FALSE,
     hasSugar |-> FALSE, cost |-> 0]

\* faulty variant: the cost is not looked at
validateNameOnly(coffee) ==
    IF coffee.requestorName = "" THEN "Requestor name cannot be empty." ELSE ""

\* validate() : the message of the exception thrown, "" when none is
validate(coffee) ==
    IF coffee.requestorName = "" THEN "Requestor name cannot be empty."
    ELSE IF coffee.cost < 0 THEN "Cost cannot be negative."
    ELSE ""

\* build() : the exception thrown or the Coffee returned
build(coffee) ==
    IF validate(coffee) # ""
    THEN [thrown |-> validate(coffee), product |-> <<>>]
    ELSE [thrown |-> "", product |-> <<coffee>>]

\* operator Coffee() : the Coffee returned
convert(coffee) == [thrown |-> "", product |-> <<coffee>>]

\* the builder's last call and what it gave
\* with the name it was given and the builder as it was before the call
BuilderRet(op, arg, r) ==
    [op |-> op, arg |-> arg, was |-> bld, thrown |-> r.thrown, product |-> r.product]

NoProduct == [thrown |-> "", product |-> <<>>]

\* CoffeeBuilder builder = Coffee::create(requestorName);
Create(requestorName) ==
    /\ bld' = <<Coffee(requestorName)>>
    /\ bRet' = BuilderRet("create", requestorName, NoProduct)

\* faulty variant: only the name is replaced
ResetNameOnly(requestorName) ==
    /\ bld # <<>>
    /\ bld' = <<[bld[1] EXCEPT !.requestorName = requestorName]>>
    /\ bRet' = BuilderRet("reset", requestorName, NoProduct)

\* builder.reset(requestorName)
Reset(requestorName) ==
    /\ bld # <<>>
    /\ bld' = <<Coffee(requestorName)>>
    /\ bRet' = BuilderRet("reset", requestorName, NoProduct)

\* a setter of the builder: one field of its coffee is assigned
Setter(op, coffee) ==
    /\ bld # <<>>
    /\ bld' = <<coffee>>
    /\ bRet' = BuilderRet(op, coffee.requestorName, NoProduct)

SetRequestorName(name) == Setter("setRequestorName", [bld[1] EXCEPT !.requestorName = name])
MakeHot == Setter("makeHot", [bld[1] EXCEPT !.isHot = TRUE])
MakeCold == Setter("makeCold", [bld[1] EXCEPT !.isHot = FALSE])
AddMilk == Setter("addMilk", [bld[1] EXCEPT !.hasMilk = TRUE])
RemoveMilk == Setter("removeMilk", [bld[1] EXCEPT !.hasMilk = FALSE])
AddSugar == Setter("addSugar", [bld[1] EXCEPT !.hasSugar = TRUE])
RemoveSugar == Setter("removeSugar", [bld[1] EXCEPT !.hasSugar = FALSE])
Costs(cost) == Setter("costs", [bld[1] EXCEPT !.cost = cost])

\* Coffee c = builder.build();
Build ==
    /\ bld # <<>>
    /\ bRet' = BuilderRet("build", "", build(bld[1]))
    /\ UNCHANGED bld

\* Coffee c = builder;  (the conversion operator)
Convert ==
    /\ bld # <<>>
    /\ bRet' = BuilderRet("operator Coffee", "", convert(bld[1]))
    /\ UNCHANGED bld

BuilderInit ==
    /\ bld = <<>>
    /\ bRet = BuilderRet("", "", NoProduct)

(* ---------------------------------------------------------------------- *)
(* Prototype example: CoffeeMachine / CoffeeMachineManager                 *)
(* ---------------------------------------------------------------------- *)

\* the null pointer
NullPtr == 0

\* machine types passed to createMachine: the three valid ones and one
\* invalid type on each side
MachineTypes == {-1, 0, 1, 2, 3}

\* values passed to the setters
CupSizes == {3}
Milks == {FALSE, TRUE}
Sugars == {1}

\* CoffeeMachine(name, cupSize, milk, sugar) of a concrete class
CoffeeMachine(class, name, cupSize, milk, sugar) ==
    [class |-> class, name |-> name, cupSize |-> cupSize, milk |-> milk,
     sugar |-> sugar, deletes |-> 0]

SimpleCoffeeMachine == CoffeeMachine("SimpleCoffeeMachine", "Simple", 1, FALSE, 0)
EspressoMachine == CoffeeMachine("EspressoMachine", "Espresso", 1, FALSE, 0)
AdvancedCoffeeMachine == CoffeeMachine("AdvancedCoffeeMachine", "Advanced", 2, TRUE, 2)

\* new : a fresh address
newAddr(h) == Cardinality(DOMAIN h) + 1

\* faulty variant: clone hands out the object itself
cloneShared(h, p) == [heap |-> h, ret |-> p]

\* p->clone() : a new object of the same class, copy-constructed from *p
clone(h, p) ==
    [heap |-> [a \in DOMAIN h \cup {newAddr(h)} |->
                    IF a \in DOMAIN h THEN h[a] ELSE [h[p] EXCEPT !.deletes = 0]],
     ret |-> newAddr(h)]

\* the check of createMachine
validType(machineType) == ~(machineType < 0 \/ machineType >= 3)

\* the prototype createMachine clones for a valid type
prototypeOf(machineType) ==
    IF machineType + 1 \in DOMAIN machines THEN machines[machineType + 1] ELSE NullPtr

\* the prototype manager's last call: name, argument, pointer returned and
\* the prototype pointer that was dereferenced
MachineRet(op, arg, ret, proto) == [op |-> op, arg |-> arg, ret |-> ret, proto |-> proto]

\* the client's machines
MineIdx == 1..Len(mine)

\* CoffeeMachine* m = CoffeeMachineManager::createMachine(machineType);
\* cloning through a null prototype is undefined: the program crashes or
\* goes on with some pointer, and is not followed further
CreateMachine(machineType) ==
    /\ ~mUB
    /\ Len(mine) < MaxMachines
    /\ IF ~validType(machineType)
       THEN /\ mine' = Append(mine, NullPtr)
            /\ mRet' = MachineRet("createMachine", machineType, NullPtr, NullPtr)
            /\ UNCHANGED <<machines, mHeap, mUB>>
       ELSE IF prototypeOf(machineType) = NullPtr
       THEN /\ mUB' = TRUE
            /\ \E wild \in {-1} \cup {NullPtr} \cup DOMAIN mHeap :
                    mRet' = MachineRet("createMachine", machineType, wild, NullPtr)
            /\ UNCHANGED <<machines, mHeap, mine>>
       ELSE LET r == clone(mHeap, prototypeOf(machineType))
            IN  /\ mHeap' = r.heap
                /\ mine' = Append(mine, r.ret)
                /\ mRet' = MachineRet("createMachine", machineType, r.ret,
                                      prototypeOf(machineType))
                /\ UNCHANGED <<machines, mUB>>

\* CoffeeMachine* c = m->clone();  on the client's i-th machine
CloneMachine(i) ==
    /\ ~mUB
    /\ Len(mine) < MaxMachines
    /\ i \in MineIdx
    /\ mine[i] # NullPtr
    /\ LET r == clone(mHeap, mine[i])
       IN  /\ mHeap' = r.heap
           /\ mine' = Append(mine, r.ret)
           /\ mRet' = MachineRet("clone", i, r.ret, mine[i])
    /\ UNCHANGED <<machines, mUB>>

\* a setter called on the client's i-th machine
MachineSetter(op, i, obj) ==
    /\ ~mUB
    /\ i \in MineIdx
    /\ mine[i] # NullPtr
    /\ mHeap' = [mHeap EXCEPT ![mine[i]] = obj]
    /\ mRet' = MachineRet(op, i, NullPtr, NullPtr)
    /\ UNCHANGED <<machines, mine, mUB>>

SetCupSize(i, size) ==
    MachineSetter("setCupSize", i, [mHeap[mine[i]] EXCEPT !.cupSize = size])

SetMilk(i, m) ==
    MachineSetter("setMilk", i, [mHeap[mine[i]] EXCEPT !.milk = m])

SetSugar(i, s) ==
    MachineSetter("setSugar", i, [mHeap[mine[i]] EXCEPT !.sugar = s])

\* CoffeeMachineManager::cleanupPrototypes() : every prototype is deleted
\* (delete of a null pointer does nothing) and its pointer set to nullptr
CleanupPrototypes ==
    /\ ~mUB
    /\ mHeap' = [a \in DOMAIN mHeap |->
                    IF \E t \in DOMAIN machines : machines[t] = a
                    THEN [mHeap[a] EXCEPT !.deletes = @ + 1]
                    ELSE mHeap[a]]
    /\ machines' = [t \in DOMAIN machines |-> NullPtr]
    /\ mRet' = MachineRet("cleanupPrototypes", 0, NullPtr, NullPtr)
    /\ UNCHANGED <<mine, mUB>>

\* the static initialiser of CoffeeMachineManager::machines
PrototypeInit ==
    /\ mHeap = <<SimpleCoffeeMachine, EspressoMachine, AdvancedCoffeeMachine>>
    /\ machines = <<1, 2, 3>>
    /\ mine = <<>>
    /\ mRet = MachineRet("", 0, NullPtr, NullPtr)
    /\ mUB = FALSE

(* ---------------------------------------------------------------------- *)
(* Proxy example: RealBankAccount / BankAccountProxy                       *)
(* ---------------------------------------------------------------------- *)

\* pins, and amounts of money in whole units
Pins == {"1234", "wrong_pin"}
InitialBalances == {-1, 0, 2}
Amounts == {-1, 0, 1, 2}

\* BankAccountProxy(initialBalance, pin) : the real account and the pin
BankAccountProxy(initialBalance, pin) ==
    [balance |-> initialBalance, correctPin |-> pin, initialBalance |-> initialBalance]

\* faulty variant: every pin is accepted
authenticateAny(account, pin) == TRUE

\* BankAccountProxy::authenticate
authenticate(account, pin) == pin = account.correctPin

\* RealBankAccount::deposit : the balance afterwards and the line printed
realDeposit(balance, amount) ==
    IF amount > 0
    THEN [balance |-> balance + amount, out |-> "Deposited"]
    ELSE [balance |-> balance, out |-> "Deposit amount must be positive."]

\* faulty variant: the amount is not compared with the balance
realWithdrawOverdraw(balance, amount) ==
    IF amount > 0
    THEN [balance |-> balance - amount, out |-> "Withdrew"]
    ELSE [balance |-> balance,
          out |-> "Withdrawal amount must be positive and less than or equal to the balance."]

\* RealBankAccount::withdraw : the balance afterwards and the line printed
realWithdraw(balance, amount) ==
    IF amount > 0 /\ amount <= balance
    THEN [balance |-> balance - amount, out |-> "Withdrew"]
    ELSE [balance |-> balance,
          out |-> "Withdrawal amount must be positive and less than or equal to the balance."]

\* BankAccountProxy::deposit
proxyDeposit(account, amount, pin) ==
    IF authenticate(account, pin)
    THEN realDeposit(account.balance, amount)
    ELSE [balance |-> account.balance, out |-> "Authentication failed. Cannot deposit."]

\* BankAccountProxy::withdraw
proxyWithdraw(account, amount, pin) ==
    IF authenticate(account, pin)
    THEN realWithdraw(account.balance, amount)
    ELSE [balance |-> account.balance, out |-> "Authentication failed. Cannot withdraw."]

\* faulty variant: the balance is returned whatever the pin
proxyGetBalanceLeak(account, pin) ==
    [ret |-> account.balance,
     out |-> IF authenticate(account, pin)
             THEN "" ELSE "Authentication failed. Cannot retrieve balance."]

\* BankAccountProxy::getBalance : the value returned and the line printed
proxyGetBalance(account, pin) ==
    IF authenticate(account, pin)
    THEN [ret |-> account.balance, out |-> ""]
    ELSE [ret |-> 0, out |-> "Authentication failed. Cannot retrieve balance."]

\* the last call on the proxy: name, arguments, value returned, line printed
ProxyRet(op, amount, pin, ret, o) ==
    [op |-> op, amount |-> amount, pin |-> pin, ret |-> ret, out |-> o]

\* BankAccountProxy accountProxy(initialBalance, pin);
NewProxy(initialBalance, pin) ==
    /\ proxy = <<>>
    /\ proxy' = <<BankAccountProxy(initialBalance, pin)>>
    /\ xRet' = ProxyRet("BankAccountProxy", initialBalance, pin, 0, "")

\* accountProxy.deposit(amount, pin);
Deposit(amount, pin) ==
    /\ proxy # <<>>
    /\ proxyDeposit(proxy[1], amount, pin).balance <= MaxBalance
    /\ proxy' = <<[proxy[1] EXCEPT !.balance = proxyDeposit(proxy[1], amount, pin).balance]>>
    /\ xRet' = ProxyRet("deposit", amount, pin, 0, proxyDeposit(proxy[1], amount, pin).out)

\* accountProxy.withdraw(amount, pin);
Withdraw(amount, pin) ==
    /\ proxy # <<>>
    /\ proxy' = <<[proxy[1] EXCEPT !.balance = proxyWithdraw(proxy[1], amount, pin).balance]>>
    /\ xRet' = ProxyRet("withdraw", amount, pin, 0, proxyWithdraw(proxy[1], amount, pin).out)

\* accountProxy.getBalance(pin)
GetBalance(pin) ==
    /\ proxy # <<>>
    /\ xRet' = ProxyRet("getBalance", 0, pin, proxyGetBalance(proxy[1], pin).ret,
                        proxyGetBalance(proxy[1], pin).out)
    /\ UNCHANGED proxy

ProxyInit ==
    /\ proxy = <<>>
    /\ xRet = ProxyRet("", 0, "", 0, "")

(* ---------------------------------------------------------------------- *)
(* Composite example: File / Directory                                     *)
(* ---------------------------------------------------------------------- *)

\* the objects held through shared_ptr: one File and two Directory objects
Files == {"file1"}
Directories == {"dir1", "dir2"}
Components == Files \cup Directories

\* faulty variant: only the first occurrence is erased
stdRemoveFirst(s, component) ==
    IF \E i \in DOMAIN s : s[i] = component
    THEN LET first == CHOOSE i \in DOMAIN s :
                          /\ s[i] = component
                          /\ \A j \in 1..(i - 1) : s[j] # component
         IN  SubSeq(s, 1, first - 1) \o SubSeq(s, first + 1, Len(s))
    ELSE s

\* children.erase(std::remove(begin, end, component), end) : one pass over
\* the vector that keeps, in place and in order, the elements that differ
RECURSIVE stdRemove(_, _)
stdRemove(s, component) ==
    IF s = <<>>
    THEN <<>>
    ELSE IF Head(s) = component
         THEN stdRemove(Tail(s), component)
         ELSE <<Head(s)>> \o stdRemove(Tail(s), component)

\* the last call on a directory; removed is the number of elements erased
DirRet(op, dir, component, removed) ==
    [op |-> op, dir |-> dir, component |-> component, removed |-> removed]

\* Directory::add
Add(dir, component) ==
    /\ Len(children[dir]) < MaxChildren
    /\ children' = [children EXCEPT ![dir] = Append(@, component)]
    /\ cRet' = DirRet("add", dir, component, 0)

\* Directory::remove
Remove(dir, component) ==
    /\ children' = [children EXCEPT ![dir] = stdRemove(@, component)]
    /\ cRet' = DirRet("remove", dir, component,
                      Len(children[dir]) - Len(stdRemove(children[dir], component)))

\* showDetails(indent) on component c with the given children vectors: the
\* lines printed, each an indentation and a name, and whether the call
\* returns; depth is the number of nested Directory::showDetails calls that
\* are followed, a deeper nesting being a recursion that does not end
RECURSIVE showDetails(_, _, _, _)
RECURSIVE showChildren(_, _, _, _)
showDetails(ch, c, indent, depth) ==
    IF c \in Files
    THEN [lines |-> << <<indent, "File: ", c>> >>, ends |-> TRUE]
    ELSE IF depth = 0
    THEN [lines |-> <<>>, ends |-> FALSE]
    ELSE LET rest == showChildren(ch, ch[c], indent + 2, depth - 1)
         IN  [lines |-> << <<indent, "Directory: ", c>> >> \o rest.lines,
              ends |-> rest.ends]

\* for (const auto& child : children) child->showDetails(indent + 2);
showChildren(ch, s, indent, depth) ==
    IF s = <<>>
    THEN [lines |-> <<>>, ends |-> TRUE]
    ELSE LET first == showDetails(ch, Head(s), indent, depth)
             rest == showChildren(ch, Tail(s), indent, depth)
         IN  IF first.ends
             THEN [lines |-> first.lines \o rest.lines, ends |-> rest.ends]
             ELSE [lines |-> first.lines, ends |-> FALSE]

\* dir->showDetails()
ShowDetails(dir) ==
    /\ cRet' = DirRet("showDetails", dir, "", 0)
    /\ UNCHANGED children

\* every Directory is constructed with no children
CompositeInit ==
    /\ children = [dir \in Directories |-> <<>>]
    /\ cRet = DirRet("", "", "", 0)

(* ---------------------------------------------------------------------- *)
(* Decorator example: SimpleCoffee / CoffeeDecorator                       *)
(* ---------------------------------------------------------------------- *)

\* a double in the range [1, 32) as a whole number of units of 2^-55, kept
\* in two limbs: the value is hi * Limb + lo with 0 <= lo < Limb
Limb == 2^30

Double(hi, lo) == [hi |-> hi, lo |-> lo]

\* the literals 2.0, 0.5, 0.2 and 1.0 as the compiler rounds them
Two == Double(67108864, 0)
Half == Double(16777216, 0)
Fifth == Double(6710886, 429496730)
One == Double(33554432, 0)

\* the sum of two values, not rounded
exactAdd(a, b) ==
    Double(a.hi + b.hi + ((a.lo + b.lo) \div Limb), (a.lo + b.lo) % Limb)

\* the spacing of the doubles around a value with 53 significant bits
ulp(a) ==
    IF a.hi >= 2^29 THEN 128
    ELSE IF a.hi >= 2^28 THEN 64
    ELSE IF a.hi >= 2^27 THEN 32
    ELSE IF a.hi >= 2^26 THEN 16
    ELSE 8

\* a value rounded to the nearest double, ties to the even significand
roundToDouble(a) ==
    LET u == ulp(a)
        r == a.lo % u
        down == a.lo - r
        up == IF 2 * r > u \/ (2 * r = u /\ (down \div u) % 2 = 1)
              THEN down + u ELSE down
    IN  Double(a.hi + (up \div Limb), up % Limb)

\* a + b on doubles
fpAdd(a, b) == roundToDouble(exactAdd(a, b))

\* the concrete decorator classes
Decorators == {"MilkDecorator", "SugarDecorator", "WhippedCreamDecorator"}

\* std::make_shared<SimpleCoffee>()
SimpleCoffee == [class |-> "SimpleCoffee", coffee |-> NullPtr]

\* std::make_shared<D>(c) for a decorator class D
CoffeeDecorator(class, c) == [class |-> class, coffee |-> c]

\* what the cost() of a concrete decorator adds
surcharge(class) ==
    CASE class = "MilkDecorator" -> Half
      [] class = "SugarDecorator" -> Fifth
      [] class = "WhippedCreamDecorator" -> One

\* what the getDescription() of a concrete decorator appends
suffix(class) ==
    CASE class = "MilkDecorator" -> ", Milk"
      [] class = "SugarDecorator" -> ", Sugar"
      [] class = "WhippedCreamDecorator" -> ", Whipped Cream"

\* p->cost()
RECURSIVE coffeeCost(_, _)
coffeeCost(h, p) ==
    IF h[p].class = "SimpleCoffee"
    THEN Two
    ELSE fpAdd(coffeeCost(h, h[p].coffee), surcharge(h[p].class))

\* p->getDescription()
RECURSIVE getDescription(_, _)
getDescription(h, p) ==
    IF h[p].class = "SimpleCoffee"
    THEN "Simple Coffee"
    ELSE getDescription(h, h[p].coffee) \o suffix(h[p].class)

\* myCoffee = std::make_shared<D>(myCoffee);
Decorate(class) ==
    /\ Len(dHeap) <= MaxWraps
    /\ dHeap' = Append(dHeap, CoffeeDecorator(class, myCoffee))
    /\ myCoffee' = Len(dHeap) + 1

\* std::shared_ptr<Coffee> myCoffee = std::make_shared<SimpleCoffee>();
DecoratorInit ==
    /\ dHeap = <<SimpleCoffee>>
    /\ myCoffee = 1

Init ==
    /\ carMap = <<>>
    /\ heap = <<>>
    /\ out = ""
    /\ log = <<>>
    /\ displayed = FALSE
    /\ pc = [t \in Threads |-> "idle"]
    /\ frame = [t \in Threads |-> NoFrame]
    /\ lock = NoThread
    /\ SingletonInit
    /\ BuilderInit
    /\ PrototypeInit
    /\ ProxyInit
    /\ CompositeInit
    /\ DecoratorInit

\* the state of the other examples, which the flyweight program leaves alone
notFlyweight == <<singletonVars, builderVars, prototypeVars, proxyVars,
    compositeVars, decoratorVars>>

Next ==
    \/ \E model \in Models, brand \in Brands, engineType \in EngineTypes :
            GetCarFlyweight(model, brand, engineType) /\ UNCHANGED notFlyweight
    \/ \E i \in 1..MaxCalls, registrationNumber \in RegistrationNumbers, owner \in Owners :
            DisplayCarDetails(i, registrationNumber, owner) /\ UNCHANGED notFlyweight

Spec == Init /\ [][Next]_vars

NextLocked ==
    \E t \in Threads :
        \/ \E model \in Models, brand \in Brands, engineType \in EngineTypes :
                LockedCall(t, model, brand, engineType) /\ UNCHANGED notFlyweight
        \/ LockedKeyStep(t) /\ UNCHANGED notFlyweight
        \/ LockedFindStep(t) /\ UNCHANGED notFlyweight
        \/ LockedInsertStep(t) /\ UNCHANGED notFlyweight
        \/ LockedReturnStep(t) /\ UNCHANGED notFlyweight

SpecLocked == Init /\ [][NextLocked]_vars

\* engine types the unsynchronised threads ask for
RacyEngineTypes == {""}

NextRacy ==
    \E t \in Threads :
        \/ \E model \in Models, brand \in Brands, engineType \in RacyEngineTypes :
                RacyCall(t, model, brand, engineType) /\ UNCHANGED notFlyweight
        \/ RacyKeyStep(t) /\ UNCHANGED notFlyweight
        \/ RacyFindStep(t) /\ UNCHANGED notFlyweight
        \/ RacyInsertStep(t) /\ UNCHANGED notFlyweight
        \/ RacyReturnStep(t) /\ UNCHANGED notFlyweight
        \/ RaceAbort(t) /\ UNCHANGED notFlyweight

SpecRacy == Init /\ [][NextRacy]_vars

\* the state of the other examples, which the singleton program leaves alone
notSingleton == <<flyweightVars, builderVars, prototypeVars, proxyVars,
    compositeVars, decoratorVars>>

NextSingleton ==
    \/ GetInstance /\ UNCHANGED notSingleton
    \/ \E i \in 1..MaxRefs, key \in ConfigKeys, value \in ConfigValues :
            SetState(i, key, value) /\ UNCHANGED notSingleton
    \/ \E i \in 1..MaxRefs, key \in ConfigKeys :
            GetState(i, key) /\ UNCHANGED notSingleton
    \/ \E i \in 1..MaxRefs, key \in ConfigKeys, defaultValue \in ConfigDefaults :
            GetStateOrDefault(i, key, defaultValue) /\ UNCHANGED notSingleton
    \/ \E i \in 1..MaxRefs, key \in ConfigKeys :
            HasState(i, key) /\ UNCHANGED notSingleton
    \/ \E i \in 1..MaxRefs, key \in ConfigKeys :
            RemoveState(i, key) /\ UNCHANGED notSingleton
    \/ \E i \in 1..MaxRefs : ClearState(i) /\ UNCHANGED notSingleton

SpecSingleton == Init /\ [][NextSingleton]_vars

NextSingletonInit ==
    \E t \in Threads :
        \/ InstCall(t) /\ UNCHANGED notSingleton
        \/ InstCheck(t) /\ UNCHANGED notSingleton
        \/ InstAcquire(t) /\ UNCHANGED notSingleton
        \/ InstConstruct(t) /\ UNCHANGED notSingleton
        \/ InstRelease(t) /\ UNCHANGED notSingleton
        \/ InstReturn(t) /\ UNCHANGED notSingleton

SpecSingletonInit == Init /\ [][NextSingletonInit]_vars

\* the state of the other examples, which the builder program leaves alone
notBuilder == <<flyweightVars, singletonVars, prototypeVars, proxyVars,
    compositeVars, decoratorVars>>

NextBuilder ==
    \/ \E name \in RequestorNames : Create(name) /\ UNCHANGED notBuilder
    \/ \E name \in RequestorNames : Reset(name) /\ UNCHANGED notBuilder
    \/ \E name \in RequestorNames : SetRequestorName(name) /\ UNCHANGED notBuilder
    \/ MakeHot /\ UNCHANGED notBuilder
    \/ MakeCold /\ UNCHANGED notBuilder
    \/ AddMilk /\ UNCHANGED notBuilder
    \/ RemoveMilk /\ UNCHANGED notBuilder
    \/ AddSugar /\ UNCHANGED notBuilder
    \/ RemoveSugar /\ UNCHANGED notBuilder
    \/ \E cost \in CoffeeCosts : Costs(cost) /\ UNCHANGED notBuilder
    \/ Build /\ UNCHANGED notBuilder
    \/ Convert /\ UNCHANGED notBuilder

SpecBuilder == Init /\ [][NextBuilder]_vars

\* the state of the other examples, which the prototype program leaves alone
notPrototype == <<flyweightVars, singletonVars, builderVars, proxyVars,
    compositeVars, decoratorVars>>

NextPrototype ==
    \/ \E machineType \in MachineTypes :
            CreateMachine(machineType) /\ UNCHANGED notPrototype
    \/ \E i \in 1..MaxMachines : CloneMachine(i) /\ UNCHANGED notPrototype
    \/ \E i \in 1..MaxMachines, size \in CupSizes :
            SetCupSize(i, size) /\ UNCHANGED notPrototype
    \/ \E i \in 1..MaxMachines, m \in Milks : SetMilk(i, m) /\ UNCHANGED notPrototype
    \/ \E i \in 1..MaxMachines, s \in Sugars : SetSugar(i, s) /\ UNCHANGED notPrototype
    \/ CleanupPrototypes /\ UNCHANGED notPrototype

SpecPrototype == Init /\ [][NextPrototype]_vars

\* the state of the other examples, which the proxy program leaves alone
notProxy == <<flyweightVars, singletonVars, builderVars, prototypeVars,
    compositeVars, decoratorVars>>

NextProxy ==
    \/ \E initialBalance \in InitialBalances, pin \in Pins :
            NewProxy(initialBalance, pin) /\ UNCHANGED notProxy
    \/ \E amount \in Amounts, pin \in Pins : Deposit(amount, pin) /\ UNCHANGED notProxy
    \/ \E amount \in Amounts, pin \in Pins : Withdraw(amount, pin) /\ UNCHANGED notProxy
    \/ \E pin \in Pins : GetBalance(pin) /\ UNCHANGED notProxy

SpecProxy == Init /\ [][NextProxy]_vars

\* the state of the other examples, which the composite program leaves alone
notComposite == <<flyweightVars, singletonVars, builderVars, prototypeVars,
    proxyVars, decoratorVars>>

NextComposite ==
    \/ \E dir \in Directories, component \in Components :
            Add(dir, component) /\ UNCHANGED notComposite
    \/ \E dir \in Directories, component \in Components :
            Remove(dir, component) /\ UNCHANGED notComposite
    \/ \E dir \in Directories : ShowDetails(dir) /\ UNCHANGED notComposite

SpecComposite == Init /\ [][NextComposite]_vars

\* the state of the other examples, which the decorator program leaves alone
notDecorator == <<flyweightVars, singletonVars, builderVars, prototypeVars,
    proxyVars, compositeVars>>

NextDecorator ==
    \E class \in Decorators : Decorate(class) /\ UNCHANGED notDecorator

SpecDecorator == Init /\ [][NextDecorator]_vars

(* ---------------------------------------------------------------------- *)
(* Properties                                                              *)
(* ---------------------------------------------------------------------- *)

\* the attribute tuple of a returned call
Args(r) == <<r.model, r.brand, r.engineType>>

Calls == 1..Len(log)

\* the attribute tuples requested so far
Requested == {Args(log[i]) : i \in Calls}

\* C1: any two getCarFlyweight calls with element-wise equal attribute
\* tuples return the same instance, whatever happened in between.
C1_IdentitySharing ==
    \A i, j \in Calls :
        Args(log[i]) = Args(log[j]) => log[i].ret = log[j].ret

\* a tuple requested, another tuple requested, the first requested again
C1_Witness ==
    /\ Len(log) >= 3
    /\ Args(log[1]) = Args(log[3])
    /\ Args(log[1]) # Args(log[2])
    /\ log[1].ret = log[3].ret
    /\ log[1].ret # log[2].ret
    /\ log[1].ret \in DOMAIN heap

\* C2: two calls whose attribute tuples differ in at least one attribute
\* return distinct instances.
C2_Discrimination ==
    \A i, j \in Calls :
        Args(log[i]) # Args(log[j]) => log[i].ret # log[j].ret

\* C3: the keys of two calls are equal if and only if their attribute
\* tuples are identical.
C3_KeyCollisionFree ==
    \A i, j \in Calls :
        (log[i].key = log[j].key) <=> (Args(log[i]) = Args(log[j]))

\* C4: after calls using K distinct attribute tuples exactly K instances
\* exist and the map holds exactly K entries; a fresh factory holds none.
C4_CreationCount ==
    /\ Cardinality(DOMAIN heap) = Cardinality(Requested)
    /\ Cardinality(DOMAIN carMap) = Cardinality(Requested)

\* C5: the first call for a tuple reports "Creating new CarFlyweight", every
\* later call with an equal tuple reports "Reusing existing CarFlyweight".
C5_HitMissSignal ==
    \A i \in Calls :
        IF \E j \in 1..(i - 1) : Args(log[j]) = Args(log[i])
        THEN log[i].signal = ReusingMsg
        ELSE log[i].signal = CreatingMsg

\* every handle returned so far is still the map's entry for its key
ReturnedStillBound ==
    \A i \in Calls :
        log[i].key \in DOMAIN carMap /\ carMap[log[i].key] = log[i].ret

\* a step keeps every key present and bound to the same instance
BindingsKept ==
    \A k \in DOMAIN carMap : k \in DOMAIN carMap' /\ carMap'[k] = carMap[k]

\* C6: once a key is bound to an instance it stays present and bound to that
\* instance after every later call, and every handle returned earlier is
\* still the map's entry for its key.
C6_StableMapping == [](ReturnedStillBound) /\ [][BindingsKept]_vars

\* the first binding has survived two later insertions
C6_Witness ==
    /\ Len(log) >= 3
    /\ Cardinality(DOMAIN carMap) >= 3
    /\ log[1].signal = CreatingMsg
    /\ carMap[log[1].key] = log[1].ret

RECURSIVE Replay(_)
\* the factory and the handles returned when the first n calls of the log are
\* made on a fresh factory with no displayCarDetails call in between
Replay(n) ==
    IF n = 0
    THEN [map |-> <<>>, heap |-> <<>>, rets |-> <<>>]
    ELSE LET p == Replay(n - 1)
             r == log[n]
             key == generateKey(r.model, r.brand, r.engineType)
             b == branch(p.map, p.heap, key, r.model, r.brand, r.engineType)
             map2 == mapIndex(b.map, key)
         IN  [map |-> map2, heap |-> b.heap, rets |-> Append(p.rets, map2[key])]

\* the factory is what the getCarFlyweight calls alone make it
SameAsWithoutDisplay ==
    LET p == Replay(Len(log))
    IN  /\ carMap = p.map
        /\ heap = p.heap
        /\ \A i \in Calls : log[i].ret = p.rets[i]

\* flyweights hold the attributes they were requested with and the keys are
\* keys of requested tuples: no extrinsic value is stored
NoExtrinsicStored ==
    /\ \A h \in DOMAIN heap :
            <<heap[h].model, heap[h].brand, heap[h].engineType>> \in Requested
    /\ \A k \in DOMAIN carMap : \E i \in Calls : k = log[i].key

\* a step that completes no getCarFlyweight call changes neither the map nor
\* the flyweights
DisplayFrame == (log' = log) => UNCHANGED <<carMap, heap>>

\* C7: displayCarDetails changes neither the shared flyweights nor the map,
\* extrinsic values are stored nowhere, and later getCarFlyweight calls give
\* the results they give without the display calls.
C7_ExtrinsicIndependence ==
    [](SameAsWithoutDisplay /\ NoExtrinsicStored) /\ [][DisplayFrame]_vars

\* a display call was made and a later getCarFlyweight call reused the flyweight
C7_Witness ==
    /\ displayed
    /\ Len(log) >= 2
    /\ out = ReusingMsg \o ": " \o log[Len(log)].key \o "\n"
    /\ log[Len(log)].ret = log[1].ret

\* C8: getCarFlyweight accepts every attribute tuple, empty strings included,
\* and returns a non-null handle to an instance stored in the map.
C8_Total ==
    /\ \A i \in Calls :
        /\ log[i].ret # NullHandle
        /\ log[i].ret \in DOMAIN heap
        /\ log[i].key \in DOMAIN carMap
        /\ carMap[log[i].key] = log[i].ret
    /\ Len(log) < MaxCalls =>
        \A model \in Models, brand \in Brands, engineType \in EngineTypes :
            ENABLED GetCarFlyweight(model, brand, engineType)

\* a call with an empty engineType returned a stored flyweight
C8_Witness ==
    \E i \in Calls :
        /\ log[i].engineType = ""
        /\ log[i].ret \in DOMAIN heap
        /\ carMap[log[i].key] = log[i].ret

\* C9: with the body of getCarFlyweight as one critical section, at most one
\* instance is ever created per key and all calls for the same tuple return
\* that one instance, under every interleaving.
C9_LockedOnePerKey ==
    /\ \A h1, h2 \in DOMAIN heap :
        generateKey(heap[h1].model, heap[h1].brand, heap[h1].engineType)
            = generateKey(heap[h2].model, heap[h2].brand, heap[h2].engineType)
        => h1 = h2
    /\ \A i, j \in Calls :
        Args(log[i]) = Args(log[j])
        => log[i].ret = log[j].ret /\ log[i].ret \in DOMAIN heap

\* two threads made overlapping first requests for the same tuple and both
\* returned the one instance
C9_Witness ==
    /\ Len(log) = 2
    /\ log[1].thread # log[2].thread
    /\ log[1].began = 0
    /\ log[2].began = 0
    /\ Args(log[1]) = Args(log[2])
    /\ log[1].ret = log[2].ret
    /\ Cardinality(DOMAIN heap) = 1

\* the key of the call a step completes
LastKey == log'[Len(log')].key

\* a step that completes a call leaves the map alone on a hit and adds the
\* one entry of the computed key on a miss
CallFrame ==
    (log' # log) =>
        IF LastKey \in DOMAIN carMap
        THEN carMap' = carMap
        ELSE /\ DOMAIN carMap' = DOMAIN carMap \cup {LastKey}
             /\ \A k \in DOMAIN carMap : carMap'[k] = carMap[k]

\* the map changes only in a call that misses
OnlyMissChanges ==
    (carMap' # carMap) => (log' # log /\ LastKey \notin DOMAIN carMap)

\* C10: a hit leaves the map unchanged, a miss adds exactly one entry under
\* the computed key and leaves the others unchanged, and nothing else ever
\* changes the map.
C10_Frame == [][CallFrame /\ OnlyMissChanges]_vars

\* a miss, a hit and another miss have been made
C10_Witness ==
    /\ Len(log) >= 3
    /\ log[1].signal = CreatingMsg
    /\ log[2].signal = ReusingMsg
    /\ log[3].signal = CreatingMsg
    /\ Cardinality(DOMAIN carMap) = 2

\* the value a key has in a configuration map, "" when it has none
Stored(m, key) == IF key \in DOMAIN m THEN m[key] ELSE ""

\* the coffeeState seen through the client's reference i
StateOf(i) == sStore[sRefs[i]].coffeeState

\* C11: every call of getInstance returns a reference to the same object, so
\* a setting written through one reference is read back through any other.
C11_SingleInstance ==
    /\ \A i, j \in RefIdx : sRefs[i] = sRefs[j]
    /\ Cardinality(DOMAIN sStore) <= 1
    /\ sCtors <= 1
    /\ \A i, j \in RefIdx : StateOf(i) = StateOf(j)
    /\ sRet.op = "getState" =>
            \A j \in RefIdx : sRet.ret = Stored(StateOf(j), sRet.key)

\* a value set through the first reference was read through the second
C11_Witness ==
    /\ Len(sRefs) = 2
    /\ sSetBy = {1}
    /\ sRet.op = "getState"
    /\ sRet.idx = 2
    /\ sRet.ret \in ConfigValues

\* C12: getState(key) right after setState(key, value) returns value,
\* whatever the configuration held before.
C12_SetThenGet ==
    sRet.op = "setState" =>
        getState(StateOf(sRet.idx), sRet.key).ret = sRet.value

\* the value a lookup returned is the stored value or its fallback
LookupValue ==
    /\ sRet.op = "getState" =>
            sRet.ret = (IF sRet.key \in DOMAIN StateOf(sRet.idx)
                        THEN StateOf(sRet.idx)[sRet.key] ELSE "")
    /\ sRet.op = "getStateOrDefault" =>
            sRet.ret = (IF sRet.key \in DOMAIN StateOf(sRet.idx)
                        THEN StateOf(sRet.idx)[sRet.key] ELSE sRet.value)

\* a lookup step leaves every configuration as it was
LookupFrame ==
    (sRet'.op \in {"getState", "getStateOrDefault"}) => (sStore' = sStore)

\* C17: getState returns the stored value or "", getStateOrDefault the stored
\* value or the default, and neither changes the configuration.
C17_Lookups == [](LookupValue) /\ [][LookupFrame]_vars

\* with one key stored, the absent key was looked up: the fallback came back
\* and the key is still absent
C17_Witness ==
    /\ sRet.op = "getStateOrDefault"
    /\ sRet.ret \in ConfigDefaults
    /\ sRet.key \notin DOMAIN StateOf(sRet.idx)
    /\ DOMAIN StateOf(sRet.idx) # {}

\* C19: the instance is constructed at the first getInstance call and not
\* before; with concurrent first calls it is constructed exactly once and
\* every caller gets the same, fully constructed object.
C19_LazyThreadSafeInit ==
    /\ sCtors <= 1
    /\ InitStarted = 0 => (sCtors = 0 /\ sStore = <<>>)
    /\ \A i \in 1..Len(sLog) :
        /\ sLog[i].ref = sLog[1].ref
        /\ sLog[i].built
        /\ sLog[i].ctors = 1
        /\ sLog[i].ref \in DOMAIN sStore

\* one thread initialised the static and returned while another, whose call
\* began before the initialisation was done, is on the slow path
C19_Witness ==
    /\ Len(sLog) = 1
    /\ sGuard = "done"
    /\ \E t \in Threads : t # sLog[1].thread /\ sThr[t] = "acquire"

\* C13: every Coffee obtained from the builder, by build() or by the
\* conversion to Coffee, has a non-empty requestor name and a non-negative
\* cost.
C13_OnlyValidCoffee ==
    \A i \in 1..Len(bRet.product) :
        /\ bRet.product[i].requestorName # ""
        /\ bRet.product[i].cost >= 0

\* the configuration of a machine: its class and its four fields
Config(o) == <<o.class, o.name, o.cupSize, o.milk, o.sugar>>

\* the prototypes as the static initialiser makes them, by machine type
OriginalPrototype(machineType) ==
    <<SimpleCoffeeMachine, EspressoMachine, AdvancedCoffeeMachine>>[machineType + 1]

\* every prototype still held has the configuration it was made with
PrototypesPristine ==
    \A t \in DOMAIN machines :
        machines[t] # NullPtr =>
            Config(mHeap[machines[t]]) = Config(OriginalPrototype(t - 1))

\* the client's machines are objects of their own: no two are the same
\* object and none is a prototype
OwnState ==
    \A i \in MineIdx :
        mine[i] # NullPtr =>
            /\ \A j \in MineIdx : j # i => mine[j] # mine[i]
            /\ \A t \in DOMAIN machines : machines[t] # mine[i]
            /\ mine[i] \notin 1..3

\* a machine createMachine cloned from a prototype has the configuration the
\* prototype was made with
CreatedPristine ==
    (mRet.op = "createMachine" /\ mRet.proto # NullPtr) =>
        /\ mRet.ret \in DOMAIN mHeap
        /\ Config(mHeap[mRet.ret]) = Config(OriginalPrototype(mRet.arg))

\* a setter step changes no object but the one it was called on, and no
\* prototype pointer
SetterFrame ==
    (mRet'.op \in {"setCupSize", "setMilk", "setSugar"}) =>
        /\ machines' = machines
        /\ DOMAIN mHeap' = DOMAIN mHeap
        /\ \A a \in DOMAIN mHeap : a # mine[mRet'.arg] => mHeap'[a] = mHeap[a]

\* C14: a machine returned by clone() or createMachine() has its own state:
\* the setters never change the prototype it came from nor any other machine,
\* so a machine createMachine clones from a prototype has the prototype's
\* original configuration however earlier clones were customised.
C14_CloneIndependence ==
    [](PrototypesPristine /\ OwnState /\ CreatedPristine) /\ [][SetterFrame]_vars

\* the first Simple machine was customised, and the Simple machine created
\* after it has the original configuration
C14_Witness ==
    /\ Len(mine) = 2
    /\ mine[1] # NullPtr
    /\ mHeap[mine[1]].class = "SimpleCoffeeMachine"
    /\ mHeap[mine[1]].cupSize = 3
    /\ mHeap[mine[1]].milk
    /\ mRet.op = "createMachine"
    /\ mRet.arg = 0
    /\ mRet.ret = mine[2]
    /\ Config(mHeap[mine[2]]) = Config(SimpleCoffeeMachine)

\* C16: createMachine returns nullptr for machineType < 0 or >= 3, and for
\* 0, 1, 2 a new machine of the class of that prototype with the prototype's
\* configuration.
C16_CreateMachineResult ==
    mRet.op = "createMachine" =>
        IF mRet.arg < 0 \/ mRet.arg >= 3
        THEN mRet.ret = NullPtr
        ELSE /\ mRet.ret \in DOMAIN mHeap
             /\ mRet.ret \notin 1..3
             /\ mHeap[mRet.ret].deletes = 0
             /\ Config(mHeap[mRet.ret]) = Config(OriginalPrototype(mRet.arg))

\* a deposit or withdraw step made with a pin other than the account's
\* leaves the account as it was
WrongPinFrame ==
    (/\ proxy # <<>>
     /\ xRet'.op \in {"deposit", "withdraw"}
     /\ xRet'.pin # proxy[1].correctPin) => (proxy' = proxy)

\* C15: a deposit or withdraw made through the proxy with a pin different
\* from the one given at construction leaves the balance unchanged.
C15_WrongPinNoChange == [][WrongPinFrame]_vars

\* a deposit of a positive amount was refused for its pin
C15_Witness ==
    /\ proxy # <<>>
    /\ xRet.op = "deposit"
    /\ xRet.amount > 0
    /\ xRet.pin # proxy[1].correctPin
    /\ xRet.out = "Authentication failed. Cannot deposit."
    /\ proxy[1].balance > 0

\* the elements of s other than component, in the order they have in s
Others(s, component) == SelectSeq(s, LAMBDA x : x # component)

\* a remove step leaves in the directory exactly its other children, in
\* their order, and touches no other directory
RemoveFrame ==
    (cRet'.op = "remove") =>
        /\ children'[cRet'.dir] = Others(children[cRet'.dir], cRet'.component)
        /\ \A i \in DOMAIN children'[cRet'.dir] :
               children'[cRet'.dir][i] # cRet'.component
        /\ \A dir \in Directories \ {cRet'.dir} : children'[dir] = children[dir]
        /\ (\A i \in DOMAIN children[cRet'.dir] :
                children[cRet'.dir][i] # cRet'.component) => (children' = children)

\* C18: Directory::remove(component) removes all occurrences of the
\* component from the directory's direct children, keeps the remaining
\* children in their relative order, and leaves the directory unchanged
\* when the component is not a direct child.
C18_RemoveAllOccurrences == [][RemoveFrame]_vars

\* a remove erased two occurrences and kept another child
C18_Witness ==
    /\ cRet.op = "remove"
    /\ cRet.removed >= 2
    /\ children[cRet.dir] # <<>>

\* C20: the handle returned by getCarFlyweight(model, brand, engineType)
\* refers to a record whose model, brand and engineType are the three
\* requested values, on a miss and on a hit alike.
C20_ReturnedRecordMatches ==
    \A i \in Calls :
        heap[log[i].ret] = CarFlyweight(log[i].model, log[i].brand, log[i].engineType)

\* no thread inside getCarFlyweight ever waits for another: its next
\* statement can always be taken
NeverBlocked ==
    \A t \in Threads :
        /\ (pc[t] = "entered") => ENABLED RacyKeyStep(t)
        /\ (pc[t] = "find") => ENABLED RacyFindStep(t)
        /\ (pc[t] = "insert") => ENABLED RacyInsertStep(t)
        /\ (pc[t] = "lookup") => ENABLED RacyReturnStep(t)

\* a thread that took the miss branch creates an instance and binds the key
\* to it without looking at the map again, even if the key is bound by then
MissAlwaysCreates ==
    \A t \in Threads :
        (pc[t] = "insert" /\ pc'[t] = "lookup") =>
            /\ DOMAIN heap' = DOMAIN heap \cup {makeShared(heap)}
            /\ makeShared(heap) \notin DOMAIN heap
            /\ carMap'[frame[t].key] = makeShared(heap)

\* C21: getCarFlyweight as written has no concurrency control and its steps
\* are not atomic: a thread is never held back between find, assignment and
\* the second lookup, and every thread that took the miss branch creates
\* and binds an instance of its own, so two threads making first requests
\* for one key can both create and can return different instances.
C21_RacyNotOnePerKey == [](NeverBlocked) /\ [][MissAlwaysCreates]_vars

\* two threads made overlapping first requests for the same tuple, both
\* created an instance, and the two calls returned different instances
C21_Witness ==
    /\ Len(log) = 2
    /\ log[1].thread # log[2].thread
    /\ log[1].began = 0
    /\ log[2].began = 0
    /\ Args(log[1]) = Args(log[2])
    /\ log[1].signal = CreatingMsg
    /\ log[2].signal = CreatingMsg
    /\ log[1].ret # log[2].ret
    /\ {log[1].ret, log[2].ret} \subseteq DOMAIN heap
    /\ heap[log[1].ret] = heap[log[2].ret]

\* the balance of an account opened with a non-negative balance
NonNegativeBalance ==
    (proxy # <<>> /\ proxy[1].initialBalance >= 0) => proxy[1].balance >= 0

\* what a call on the proxy does to the balance
BalanceStep ==
    (proxy # <<>>) =>
        LET b == proxy[1].balance
            ok == xRet'.pin = proxy[1].correctPin
            a == xRet'.amount
        IN  /\ (xRet'.op = "withdraw") =>
                   proxy'[1].balance = IF ok /\ 0 < a /\ a <= b THEN b - a ELSE b
            /\ (xRet'.op = "deposit") =>
                   proxy'[1].balance = IF ok /\ a > 0 THEN b + a ELSE b
            /\ (xRet'.op = "getBalance") => proxy'[1].balance = b
            /\ proxy'[1].correctPin = proxy[1].correctPin

\* C22: starting from a non-negative initial balance the balance is never
\* negative; a withdraw changes it only when the pin is correct and
\* 0 < amount <= balance, and then subtracts exactly amount; a deposit
\* changes it only when the pin is correct and amount > 0, and then adds
\* exactly amount; every other call leaves the balance unchanged.
C22_BalanceNeverNegative == [](NonNegativeBalance) /\ [][BalanceStep]_vars

\* the whole balance was withdrawn with the correct pin
C22_Witness ==
    /\ proxy # <<>>
    /\ proxy[1].initialBalance >= 0
    /\ xRet.op = "withdraw"
    /\ xRet.pin = proxy[1].correctPin
    /\ xRet.amount > 0
    /\ xRet.out = "Withdrew"
    /\ proxy[1].balance = 0

\* what a caller with a wrong pin gets back from a call: the value
\* returned and the line printed, which depend on the call alone
WrongPinAnswer(op) ==
    CASE op = "deposit" -> <<0, "Authentication failed. Cannot deposit.">>
      [] op = "withdraw" -> <<0, "Authentication failed. Cannot withdraw.">>
      [] op = "getBalance" -> <<0, "Authentication failed. Cannot retrieve balance.">>

\* C23: getBalance with a pin different from the correct one returns 0
\* whatever the real balance is, so the answers to wrong-pin calls are the
\* same for accounts with different balances; with the correct pin it
\* returns the real account's balance.
C23_WrongPinRevealsNothing ==
    (proxy # <<>> /\ xRet.op \in {"deposit", "withdraw", "getBalance"}) =>
        IF xRet.pin # proxy[1].correctPin
        THEN <<xRet.ret, xRet.out>> = WrongPinAnswer(xRet.op)
        ELSE (xRet.op = "getBalance") => (xRet.ret = proxy[1].balance)

\* a wrong-pin getBalance on an account that holds money returned 0
C23_Witness ==
    /\ proxy # <<>>
    /\ xRet.op = "getBalance"
    /\ xRet.pin # proxy[1].correctPin
    /\ proxy[1].balance > 0
    /\ xRet.ret = 0

\* what a build step gives, and what it leaves of the builder
BuildStep ==
    (bRet'.op = "build") =>
        /\ bld' = bld
        /\ IF bld[1].requestorName = "" \/ bld[1].cost < 0
           THEN bRet'.thrown # "" /\ bRet'.product = <<>>
           ELSE bRet'.thrown = "" /\ bRet'.product = <<bld[1]>>

\* C24: build() raises an error when the requestor name is empty or the
\* cost is negative, and otherwise returns a Coffee equal to the builder's
\* current configuration; in both outcomes the builder's configuration is
\* unchanged.
C24_BuildValidates == [][BuildStep]_vars

\* a build failed on a negative cost and left the builder, configured with
\* milk, as it was
C24_Witness ==
    /\ bRet.op = "build"
    /\ bRet.thrown = "Cost cannot be negative."
    /\ bRet.product = <<>>
    /\ bld = bRet.was
    /\ bld[1].cost < 0
    /\ bld[1].hasMilk

\* the configuration of a freshly created builder for name
FreshBuilder(name) ==
    <<[requestorName |-> name, isHot |-> FALSE, hasMilk |-> FALSE,
       hasSugar |-> FALSE, cost |-> 0]>>

ResetStep == (bRet'.op = "reset") => (bld' = FreshBuilder(bRet'.arg))

\* C25: after reset(name) the builder's configuration equals that of a
\* freshly created builder for name (not hot, no milk, no sugar, cost 0),
\* whatever was configured before.
C25_ResetFresh == [][ResetStep]_vars

\* a builder configured hot, with milk, sugar and a cost was reset
C25_Witness ==
    /\ bRet.op = "reset"
    /\ bRet.was # <<>>
    /\ bRet.was[1].isHot
    /\ bRet.was[1].hasMilk
    /\ bRet.was[1].hasSugar
    /\ bRet.was[1].cost # 0
    /\ bRet.was[1].requestorName # bRet.arg
    /\ bld = FreshBuilder(bRet.arg)

\* C26: createMachine(t) with 0 <= t < 3 never uses a null or deleted
\* prototype: it has a live prototype to clone and returns a non-null
\* machine; and no prototype is ever deleted twice.
C26_LivePrototype ==
    /\ (mRet.op = "createMachine" /\ 0 <= mRet.arg /\ mRet.arg < 3) =>
            /\ ~mUB
            /\ mRet.proto \in DOMAIN mHeap
            /\ mHeap[mRet.proto].deletes = 0
            /\ mRet.ret \in DOMAIN mHeap
    /\ \A a \in DOMAIN mHeap : mHeap[a].deletes <= 1

\* the direct children of a directory, as a set
ChildSet(d) == {children[d][i] : i \in DOMAIN children[d]}

\* S with everything reachable from it in at most n more steps down
RECURSIVE Closure(_, _)
Closure(S, n) ==
    IF n = 0
    THEN S
    ELSE Closure(S \cup UNION {ChildSet(d) : d \in S \cap Directories}, n - 1)

\* everything reachable from directory d through children
Descendants(d) == Closure(ChildSet(d), Cardinality(Directories))

\* no directory is reachable from itself through children
IsTree == \A d \in Directories : d \notin Descendants(d)

\* the names printed at indentation n, in the order printed
NamesAt(lines, n) ==
    LET at == SelectSeq(lines, LAMBDA l : l[1] = n)
    IN  [i \in DOMAIN at |-> at[i][3]]

\* showDetails on the directory returns, having printed the directory
\* first and then its children in insertion order two spaces deeper
ShowsTree ==
    (cRet.op = "showDetails") =>
        LET r == showDetails(children, cRet.dir, 0, Cardinality(Directories))
        IN  /\ r.ends
            /\ r.lines[1] = <<0, "Directory: ", cRet.dir>>
            /\ NamesAt(r.lines, 2) = children[cRet.dir]

\* C27: every structure built by add and remove calls is a tree (no
\* directory is reachable from itself through children), so showDetails on
\* any directory terminates, visiting the directory first and then each
\* child in insertion order at an indentation 2 spaces deeper.
C27_TreeAndShowDetailsEnds == IsTree /\ ShowsTree

\* the decorator classes wrapped around the SimpleCoffee, innermost first,
\* as seen from object p
RECURSIVE Wraps(_, _)
Wraps(h, p) ==
    IF h[p].class = "SimpleCoffee"
    THEN <<>>
    ELSE Append(Wraps(h, h[p].coffee), h[p].class)

\* how many times a decorator class is wrapped around the coffee
Count(class) ==
    Cardinality({i \in DOMAIN Wraps(dHeap, myCoffee) : Wraps(dHeap, myCoffee)[i] = class})

\* x + s + ... + s with n additions of doubles
RECURSIVE AddTimes(_, _, _)
AddTimes(x, s, n) == IF n = 0 THEN x ELSE fpAdd(AddTimes(x, s, n - 1), s)

\* the cost when the same decorators are applied milk first, then sugar,
\* then whipped cream
RearrangedCost ==
    AddTimes(AddTimes(AddTimes(Two, Half, Count("MilkDecorator")),
                      Fifth, Count("SugarDecorator")),
             One, Count("WhippedCreamDecorator"))

\* C28: the cost of a decorated coffee is 2.0 plus the surcharge of every
\* decorator wrapped around it (Milk 0.5, Sugar 0.2, Whipped Cream 1.0, once
\* per wrapping) and does not depend on the order in which the decorators
\* were applied.
C28_CostOrderIndependent ==
    coffeeCost(dHeap, myCoffee) = RearrangedCost

====
